---------------------------- MODULE Spec2Model ----------------------------
(***************************************************************************)
(* Order workflow of the pharmacy inventory server (src/server.js) over    *)
(* the SQLite tables of src/database.js.                                   *)
(*                                                                         *)
(* The server is a single Node process and every handler is a synchronous  *)
(* function over better-sqlite3 (no await, no callback between the first   *)
(* read and the response), so one request is one atomic step and two       *)
(* concurrent requests are two steps in either order.  What is NOT atomic  *)
(* is the effect of a handler that throws half way: POST /api/orders and   *)
(* PUT /api/orders/:id/status run each statement in autocommit mode, so    *)
(* the statements executed before the throw stay in the tables.            *)
(*                                                                         *)
(* Prices are REAL columns; they are modelled as integers (minor units).   *)
(***************************************************************************)
EXTENDS Integers, Sequences, FiniteSets, TLC

(***************************************************************************)
(* Bounds of the model.                                                    *)
(***************************************************************************)
NumProducts == 2   \* product ids 1..NumProducts
NumUsers    == 2   \* user ids 1..NumUsers; user 1 is the default admin
MaxStock    == 2   \* initial products.quantity is in 0..MaxStock
MaxQty      == 2   \* largest quantity a cart entry asks for
MaxNegQty   == 1   \* cart quantities go down to -MaxNegQty
MaxCartLen  == 2   \* longest cart
MaxOrders   == 1   \* no order is inserted beyond this many
QuantityCap == 3   \* requests that would take a stock outside -QuantityCap..QuantityCap are not issued
MaxLedgerOrders == 2   \* orders of the ledger specifications

ProductIds == 1..NumProducts
UserIds    == 1..NumUsers
NoSession  == 0                      \* req.session.user is undefined
Admin      == 1                      \* the default admin is the first row of users
Sessions   == UserIds \cup {NoSession}
OrderIds   == 1..(MaxOrders + 1)     \* ids a client may name; the last one never exists

(***************************************************************************)
(* JSON values of item.quantity: a number or null.  The carts of the model  *)
(* ask for the non-zero integers from -MaxNegQty to MaxQty and for null.   *)
(***************************************************************************)
Num(n) == [t |-> "num", n |-> n]
Null   == [t |-> "null", n |-> 0]
QuantityValues ==
    {Num(n) : n \in ((-MaxNegQty)..MaxQty) \ {0}} \cup {Null}

\* JavaScript ToNumber, as applied by `<` and `*`: Number(null) is 0.
ToNumber(v) == IF v.t = "null" THEN 0 ELSE v.n

CartEntries == [product_id : ProductIds, quantity : QuantityValues]
Carts == UNION {[1..n -> CartEntries] : n \in 0..MaxCartLen}

\* req.body of POST /api/orders is [items, customer_name, customer_address];
\* items.isArray = FALSE stands for a missing or non-array `items`, the empty
\* string for a missing customer field.

\* A list of statuses with one more entry.
validStatuses_OneMore ==
    {"pending", "processing", "shipped", "delivered", "cancelled", "bogus"}

validStatuses == {"pending", "processing", "shipped", "delivered", "cancelled"}
StatusInputs  == validStatuses \cup {"bogus"}

VARIABLES
    products,     \* table products: id -> [name, quantity, price]
    orders,       \* table orders: id -> [user_id, order_number, total_amount, status]
    order_items,  \* table order_items, in insertion (id) order
    order_seq,    \* sqlite_sequence of orders: the last AUTOINCREMENT id handed out
    users,        \* table users: the ids of the stored accounts
    res           \* the response to the last request

vars == <<products, orders, order_items, order_seq, users, res>>


(***************************************************************************)
(* Responses.  Every response has the same fields; the ones a response      *)
(* does not carry keep the defaults below.                                 *)
(***************************************************************************)
Response(op, status, error) ==
    [op |-> op, status |-> status, error |-> error,
     product_id |-> 0, product_name |-> 0,
     available |-> 0, requested |-> Null,
     order |-> 0, items |-> <<>>, list |-> {}, stats |-> <<>>]

\* res.status(400).json({ error: `Product ${item.product_id} not found` })
ProductNotFound(pid) ==
    [Response("PlaceOrder", 400, "ProductNotFound") EXCEPT !.product_id = pid]

\* `Insufficient stock for ${product.name}. Available: ${product.quantity},
\*  Requested: ${item.quantity}`
OutOfStock(product, item) ==
    [Response("PlaceOrder", 400, "OutOfStock") EXCEPT
        !.product_id = item.product_id, !.product_name = product.name,
        !.available = product.quantity, !.requested = item.quantity]

(***************************************************************************)
(* Middleware.                                                             *)
(***************************************************************************)
requireAuth(session) == session # NoSession

\* users.role: the account created with the database is the admin, every
\* registered account has the column default 'user'.
Role(user) == IF user = Admin THEN "admin" ELSE "user"

\* A gate that lets every logged-in user through.
requireAdmin_AnyUser(session) == session # NoSession

\* requireAdmin: next() for an admin; otherwise a redirect when the request
\* accepts HTML, else 403.  Neither answer carries data.
requireAdmin(session) == session # NoSession /\ Role(session) = "admin"
AdminRequired(op, acceptsHtml) ==
    IF acceptsHtml THEN Response(op, 302, "Redirect")
    ELSE Response(op, 403, "AdminRequired")

(***************************************************************************)
(* Queries.                                                                *)
(***************************************************************************)
\* SELECT * FROM order_items WHERE order_id = ?
getOrderItems(items, orderId) ==
    LET OfOrder(row) == row.order_id = orderId IN SelectSeq(items, OfOrder)

(***************************************************************************)
(* POST /api/orders, validation loop: the first entry that names no        *)
(* product or asks for more than the stock ends the request; otherwise     *)
(* the entries are priced and collected in validateItems.                  *)
(***************************************************************************)
\* A check that also turns away a request for exactly the stock.
StockInsufficient_OffByOne(product, item) ==
    product.quantity <= ToNumber(item.quantity)

StockInsufficient(product, item) == product.quantity < ToNumber(item.quantity)

\* A loop that passes over an entry that names no product.
RECURSIVE validateLoop_SkipsUnknown(_, _, _, _, _)
validateLoop_SkipsUnknown(prods, items, i, totalAmount, validateItems) ==
    IF i > Len(items)
    THEN [ok |-> TRUE, totalAmount |-> totalAmount, validateItems |-> validateItems,
          res |-> Response("PlaceOrder", 200, "")]
    ELSE LET item == items[i] IN
         IF item.product_id \notin DOMAIN prods
         THEN validateLoop_SkipsUnknown(prods, items, i + 1, totalAmount,
                                        validateItems)
         ELSE LET product == prods[item.product_id] IN
              IF StockInsufficient(product, item)
              THEN [ok |-> FALSE, totalAmount |-> 0, validateItems |-> <<>>,
                    res |-> OutOfStock(product, item)]
              ELSE LET subtotal == product.price * ToNumber(item.quantity) IN
                   validateLoop_SkipsUnknown(prods, items, i + 1,
                       totalAmount + subtotal,
                       Append(validateItems,
                           [product_id   |-> item.product_id,
                            product_name |-> product.name,
                            quantity     |-> item.quantity,
                            price        |-> product.price,
                            subtotal     |-> subtotal]))

RECURSIVE validateLoop(_, _, _, _, _)
validateLoop(prods, items, i, totalAmount, validateItems) ==
    IF i > Len(items)
    THEN [ok |-> TRUE, totalAmount |-> totalAmount, validateItems |-> validateItems,
          res |-> Response("PlaceOrder", 200, "")]
    ELSE LET item == items[i] IN
         IF item.product_id \notin DOMAIN prods
         THEN [ok |-> FALSE, totalAmount |-> 0, validateItems |-> <<>>,
               res |-> ProductNotFound(item.product_id)]
         ELSE LET product == prods[item.product_id] IN
              IF StockInsufficient(product, item)
              THEN [ok |-> FALSE, totalAmount |-> 0, validateItems |-> <<>>,
                    res |-> OutOfStock(product, item)]
              ELSE LET subtotal == product.price * ToNumber(item.quantity) IN
                   validateLoop(prods, items, i + 1, totalAmount + subtotal,
                       Append(validateItems,
                           [product_id   |-> item.product_id,
                            product_name |-> product.name,
                            quantity     |-> item.quantity,
                            price        |-> product.price,
                            subtotal     |-> subtotal]))

(***************************************************************************)
(* POST /api/orders, write loop: per validated entry one INSERT INTO       *)
(* order_items and one UPDATE products SET quantity = quantity - ?.  Each  *)
(* statement commits on its own.  order_items.quantity is NOT NULL, so the *)
(* INSERT of an entry whose quantity is null throws; the loop stops there  *)
(* and what was written before stays.                                      *)
(***************************************************************************)
InsertThrows(item) == item.quantity.t = "null"

\* An UPDATE that takes one unit whatever the entry asks for.
Deduct_OneUnit(quantity, n) == quantity - 1

Deduct(quantity, n) == quantity - n

RECURSIVE writeLoop(_, _, _, _, _)
writeLoop(prods, items, orderId, validateItems, k) ==
    IF k > Len(validateItems)
    THEN [threw |-> FALSE, products |-> prods, order_items |-> items]
    ELSE LET item == validateItems[k] IN
         IF InsertThrows(item)
         THEN [threw |-> TRUE, products |-> prods, order_items |-> items]
         ELSE LET row == [order_id     |-> orderId,
                          product_id   |-> item.product_id,
                          product_name |-> item.product_name,
                          quantity     |-> item.quantity.n,
                          price        |-> item.price,
                          subtotal     |-> item.subtotal]
                  q == item.quantity.n
              IN writeLoop(
                     [prods EXCEPT ![item.product_id].quantity = Deduct(@, q)],
                     Append(items, row), orderId, validateItems, k + 1)

(***************************************************************************)
(* The database as one value, so that a handler is a function from the     *)
(* database and the request to the database and the response.              *)
(***************************************************************************)
Db == [products |-> products, orders |-> orders,
       order_items |-> order_items, order_seq |-> order_seq, users |-> users]

OrderNumbersOf(db) == {db.orders[id].order_number : id \in DOMAIN db.orders}

\* generateOrderNumber(): `ORD-${Date.now()}-${random below 1000}`.  The value is
\* not determined by the database: it is either a number no stored order has
\* (written as the id the new row will get) or the number of a stored order.
FreshOrderNumber(db) == db.order_seq + 1
generateOrderNumber(db) == {FreshOrderNumber(db)} \cup OrderNumbersOf(db)

\* A column without the UNIQUE constraint.
UniqueViolation_Never(db, orderNumber) == FALSE

\* orders.order_number is UNIQUE: the INSERT throws on a stored number.
UniqueViolation(db, orderNumber) == orderNumber \in OrderNumbersOf(db)

(***************************************************************************)
(* POST /api/orders                                                        *)
(***************************************************************************)
\* insertOrder.run(...): the header row, status by the column default 'pending'.
insertOrder(db, session, orderNumber, totalAmount) ==
    LET orderId == db.order_seq + 1 IN
    [db EXCEPT !.orders = (orderId :>
                              [user_id      |-> session,
                               order_number |-> orderNumber,
                               total_amount |-> totalAmount,
                               status       |-> "pending"]) @@ db.orders,
               !.order_seq = orderId]

\* Lines 965-1018: the header, then the write loop, then the order read back.
\* The catch block answers 500 and undoes nothing.
writeOrder(db, session, orderNumber, v) ==
    IF UniqueViolation(db, orderNumber)
    THEN [db |-> db, res |-> Response("PlaceOrder", 500, "SqliteError")]
    ELSE LET db1 == insertOrder(db, session, orderNumber, v.totalAmount)
             orderId == db1.order_seq
             w == writeLoop(db1.products, db1.order_items, orderId,
                            v.validateItems, 1)
             db2 == [db1 EXCEPT !.products = w.products,
                                !.order_items = w.order_items]
         IN IF w.threw
            THEN [db |-> db2, res |-> Response("PlaceOrder", 500, "SqliteError")]
            ELSE [db |-> db2,
                  res |-> [Response("PlaceOrder", 200, "") EXCEPT
                              !.order = orderId,
                              !.items = getOrderItems(db2.order_items, orderId)]]

\* if (!items || !Array.isArray(items) || items.length === 0)
ItemsMissing(body) == ~body.items.isArray \/ Len(body.items.elems) = 0

\* A check of the customer's name alone.
CustomerMissing_NameOnly(body) == body.customer_name = ""

\* if (!customer_name || !customer_address): the empty string stands for
\* every falsy value, the absent field included.
CustomerMissing(body) == body.customer_name = "" \/ body.customer_address = ""

\* A handler that inserts the header before it validates the cart.
postOrder_InsertsBeforeValidating(db, session, body, orderNumber) ==
    IF ~requireAuth(session)
    THEN [db |-> db, res |-> Response("PlaceOrder", 401, "Unauthorized")]
    ELSE IF ItemsMissing(body)
    THEN [db |-> db, res |-> Response("PlaceOrder", 400, "InvalidOrder")]
    ELSE IF CustomerMissing(body)
    THEN [db |-> db, res |-> Response("PlaceOrder", 400, "InvalidOrder")]
    ELSE LET v == validateLoop(db.products, body.items.elems, 1, 0, <<>>) IN
         IF ~v.ok
         THEN [db |-> IF UniqueViolation(db, orderNumber) THEN db
                      ELSE insertOrder(db, session, orderNumber, 0),
               res |-> v.res]
         ELSE writeOrder(db, session, orderNumber, v)

postOrder(db, session, body, orderNumber) ==
    IF ~requireAuth(session)
    THEN [db |-> db, res |-> Response("PlaceOrder", 401, "Unauthorized")]
    ELSE IF ItemsMissing(body)
    THEN [db |-> db, res |-> Response("PlaceOrder", 400, "InvalidOrder")]
    ELSE IF CustomerMissing(body)
    THEN [db |-> db, res |-> Response("PlaceOrder", 400, "InvalidOrder")]
    ELSE LET v == validateLoop(db.products, body.items.elems, 1, 0, <<>>) IN
         IF ~v.ok
         THEN [db |-> db, res |-> v.res]
         ELSE writeOrder(db, session, orderNumber, v)

(***************************************************************************)
(* PUT /api/orders/:id/status                                              *)
(***************************************************************************)
\* An UPDATE with the sign of the deduction.
Restore_Subtracts(quantity, n) == quantity - n

Restore(quantity, n) == quantity + n

\* for (const item of items) restoreProduct.run(item.quantity, item.product_id)
\* UPDATE ... WHERE id = ? changes nothing when the product row is gone.
RECURSIVE restoreLoop(_, _, _)
restoreLoop(prods, items, k) ==
    IF k > Len(items)
    THEN prods
    ELSE LET item == items[k] IN
         restoreLoop(
             IF item.product_id \in DOMAIN prods
             THEN [prods EXCEPT ![item.product_id].quantity = Restore(@, item.quantity)]
             ELSE prods,
             items, k + 1)

\* A handler that also restores the stock of a delivered order.
RestoresInventory_AlsoDelivered(status) == status \in {"cancelled", "delivered"}

RestoresInventory(status) == status = "cancelled"

\* An UPDATE that is taken to have changed a row whatever the id.
NoRowChanged_Never(db, id) == FALSE

\* UPDATE orders SET status = ? WHERE id = ?, then result.changes === 0.
NoRowChanged(db, id) == id \notin DOMAIN db.orders

putOrderStatus(db, session, id, status) ==
    IF ~requireAuth(session)
    THEN [db |-> db, res |-> Response("UpdateOrderStatus", 401, "Unauthorized")]
    ELSE IF status \notin validStatuses
    THEN [db |-> db, res |-> Response("UpdateOrderStatus", 400, "InvalidStatus")]
    ELSE IF NoRowChanged(db, id)
    THEN [db |-> db, res |-> Response("UpdateOrderStatus", 404, "OrderNotFound")]
    ELSE LET updated == [db.orders EXCEPT ![id].status = status]
             prods == IF RestoresInventory(status)
                      THEN restoreLoop(db.products,
                                       getOrderItems(db.order_items, id), 1)
                      ELSE db.products
         IN [db |-> [db EXCEPT !.orders = updated, !.products = prods],
             res |-> [Response("UpdateOrderStatus", 200, "") EXCEPT !.order = id]]

(***************************************************************************)
(* PUT /api/orders/:id/status when a statement of the restore loop throws. *)
(* restoreProduct.run can throw for reasons outside the request (the       *)
(* database file is locked by another connection, the disk is full, an     *)
(* I/O error): failAt is the position of the restore that throws, 0 for    *)
(* none.  The UPDATE of the status and every restore before it have        *)
(* committed on their own by then; the catch block answers 500.            *)
(***************************************************************************)
RECURSIVE restoreLoopFailing(_, _, _, _)
restoreLoopFailing(prods, items, k, failAt) ==
    IF k > Len(items)
    THEN [threw |-> FALSE, products |-> prods]
    ELSE IF k = failAt
    THEN [threw |-> TRUE, products |-> prods]
    ELSE LET item == items[k] IN
         restoreLoopFailing(
             IF item.product_id \in DOMAIN prods
             THEN [prods EXCEPT ![item.product_id].quantity = Restore(@, item.quantity)]
             ELSE prods,
             items, k + 1, failAt)

putOrderStatusFailing(db, session, id, status, failAt) ==
    IF ~requireAuth(session)
    THEN [db |-> db, res |-> Response("UpdateOrderStatus", 401, "Unauthorized")]
    ELSE IF status \notin validStatuses
    THEN [db |-> db, res |-> Response("UpdateOrderStatus", 400, "InvalidStatus")]
    ELSE IF NoRowChanged(db, id)
    THEN [db |-> db, res |-> Response("UpdateOrderStatus", 404, "OrderNotFound")]
    ELSE LET updated == [db.orders EXCEPT ![id].status = status]
             w == IF RestoresInventory(status)
                  THEN restoreLoopFailing(db.products,
                                          getOrderItems(db.order_items, id),
                                          1, failAt)
                  ELSE [threw |-> FALSE, products |-> db.products]
         IN [db |-> [db EXCEPT !.orders = updated, !.products = w.products],
             res |-> IF w.threw
                     THEN Response("UpdateOrderStatus", 500, "SqliteError")
                     ELSE [Response("UpdateOrderStatus", 200, "") EXCEPT
                              !.order = id]]

(***************************************************************************)
(* GET /api/orders, GET /api/orders/my-orders, GET /api/orders/:id.  Each  *)
(* runs SELECT statements only.  A list is the set of its rows: the order  *)
(* of the rows (created_at, to the second) is not modelled.                *)
(***************************************************************************)
\* { ...order, items }
OrderWithItems(db, id) ==
    [id |-> id, order |-> db.orders[id],
     items |-> getOrderItems(db.order_items, id)]

NoFilter == ""

\* A query that leaves the status filter out.
MatchesFilter_Ignored(order, status) == TRUE

\* if (status) query += ' AND o.status = ?'
MatchesFilter(order, status) == status = NoFilter \/ order.status = status

getOrders(db, session, status, acceptsHtml) ==
    IF ~requireAuth(session)
    THEN [db |-> db, res |-> Response("ListOrders", 401, "Unauthorized")]
    ELSE IF ~requireAdmin(session)
    THEN [db |-> db, res |-> AdminRequired("ListOrders", acceptsHtml)]
    ELSE [db |-> db,
          res |-> [Response("ListOrders", 200, "") EXCEPT
                      !.list = {OrderWithItems(db, id) :
                                   id \in {o \in DOMAIN db.orders :
                                              MatchesFilter(db.orders[o], status)}}]]

\* SELECT SUM(total_amount) FROM orders WHERE status != 'cancelled'
RECURSIVE SumRevenue(_, _)
SumRevenue(ords, ids) ==
    IF ids = {} THEN 0
    ELSE LET o == CHOOSE x \in ids : TRUE
         IN (IF ords[o].status # "cancelled" THEN ords[o].total_amount ELSE 0)
            + SumRevenue(ords, ids \ {o})

\* GET /api/orders/stats: the answer is one stats object.
getOrderStats(db, session, acceptsHtml) ==
    IF ~requireAuth(session)
    THEN [db |-> db, res |-> Response("OrderStats", 401, "Unauthorized")]
    ELSE IF ~requireAdmin(session)
    THEN [db |-> db, res |-> AdminRequired("OrderStats", acceptsHtml)]
    ELSE [db |-> db,
          res |-> [Response("OrderStats", 200, "") EXCEPT
                      !.stats = <<[totalOrders   |-> Cardinality(DOMAIN db.orders),
                                   pendingOrders |->
                                      Cardinality({o \in DOMAIN db.orders :
                                                     db.orders[o].status = "pending"}),
                                   totalRevenue  |->
                                      SumRevenue(db.orders, DOMAIN db.orders),
                                   byStatus      |->
                                      {[status |-> st,
                                        count  |-> Cardinality(
                                                      {o \in DOMAIN db.orders :
                                                         db.orders[o].status = st})] :
                                       st \in {db.orders[o].status :
                                                 o \in DOMAIN db.orders}}]>>]]

\* A listing that marks the pending orders it returns as processing.
getMyOrders_MarksSeen(db, session) ==
    IF ~requireAuth(session)
    THEN [db |-> db, res |-> Response("ListMyOrders", 401, "Unauthorized")]
    ELSE [db |-> [db EXCEPT !.orders =
                     [o \in DOMAIN db.orders |->
                         IF db.orders[o].user_id = session
                            /\ db.orders[o].status = "pending"
                         THEN [db.orders[o] EXCEPT !.status = "processing"]
                         ELSE db.orders[o]]],
          res |-> [Response("ListMyOrders", 200, "") EXCEPT
                      !.list = {OrderWithItems(db, id) :
                                   id \in {o \in DOMAIN db.orders :
                                              db.orders[o].user_id = session}}]]

getMyOrders(db, session) ==
    IF ~requireAuth(session)
    THEN [db |-> db, res |-> Response("ListMyOrders", 401, "Unauthorized")]
    ELSE [db |-> db,
          res |-> [Response("ListMyOrders", 200, "") EXCEPT
                      !.list = {OrderWithItems(db, id) :
                                   id \in {o \in DOMAIN db.orders :
                                              db.orders[o].user_id = session}}]]

\* The ownership test of the handler has an empty body: every logged-in user
\* is answered.
getOrder(db, session, id) ==
    IF ~requireAuth(session)
    THEN [db |-> db, res |-> Response("GetOrder", 401, "Unauthorized")]
    ELSE IF id \notin DOMAIN db.orders
    THEN [db |-> db, res |-> Response("GetOrder", 404, "OrderNotFound")]
    ELSE [db |-> db,
          res |-> [Response("GetOrder", 200, "") EXCEPT
                      !.order = id,
                      !.items = getOrderItems(db.order_items, id),
                      !.list = {OrderWithItems(db, id)}]]

(***************************************************************************)
(* DELETE /api/users/:id, behind requireAuth and requireAdmin.  The three  *)
(* DELETE statements run in one db.transaction.  The session of the        *)
(* deleted user is not destroyed.                                          *)
(***************************************************************************)
OrdersOf(db, userId) == {o \in DOMAIN db.orders : db.orders[o].user_id = userId}

\* A deletion that leaves the order items of the user's orders behind.
deleteOrderItems_Skipped(db, userId) == db.order_items

\* DELETE FROM order_items WHERE order_id IN
\*    (SELECT id FROM orders WHERE user_id = ?)
deleteOrderItems(db, userId) ==
    LET Kept(row) == row.order_id \notin OrdersOf(db, userId)
    IN SelectSeq(db.order_items, Kept)

\* DELETE FROM orders WHERE user_id = ?
deleteOrders(db, userId) ==
    [o \in DOMAIN db.orders \ OrdersOf(db, userId) |-> db.orders[o]]

deleteUser(db, session, userId, acceptsHtml) ==
    IF ~requireAuth(session)
    THEN [db |-> db, res |-> Response("DeleteUser", 401, "Unauthorized")]
    ELSE IF ~requireAdmin(session)
    THEN [db |-> db, res |-> AdminRequired("DeleteUser", acceptsHtml)]
    ELSE IF userId = session
    THEN [db |-> db, res |-> Response("DeleteUser", 400, "CannotDeleteSelf")]
    ELSE IF userId \notin db.users
    THEN [db |-> db, res |-> Response("DeleteUser", 404, "UserNotFound")]
    ELSE IF Role(userId) = "admin"
    THEN [db |-> db, res |-> Response("DeleteUser", 400, "CannotDeleteAdmin")]
    ELSE [db |-> [db EXCEPT !.order_items = deleteOrderItems(db, userId),
                            !.orders = deleteOrders(db, userId),
                            !.users = db.users \ {userId}],
          res |-> Response("DeleteUser", 200, "")]

\* orders.user_id REFERENCES users(id).  A session outlives its account; when
\* the build enforces foreign keys, the header INSERT of an order for a deleted
\* account throws and the catch block answers 500 with nothing written.
postOrderChecked(db, session, body, orderNumber, foreign_keys) ==
    LET r == postOrder(db, session, body, orderNumber)
    IN IF /\ foreign_keys
          /\ session \notin db.users
          /\ r.db.order_seq # db.order_seq
       THEN [db |-> db, res |-> Response("PlaceOrder", 500, "SqliteError")]
       ELSE r

(***************************************************************************)
(* PUT /api/products/:id and DELETE /api/products/:id.  Both sit behind    *)
(* requireAuth only.  The UPDATE writes the row of table products and no   *)
(* other table; the body is stored as sent, without validation.            *)
(***************************************************************************)
ProductBody(name, quantity, price) ==
    [name |-> name, quantity |-> quantity, price |-> price]

\* An update that also rewrites the order items of the product.
putProduct_RewritesItems(db, session, id, body) ==
    IF ~requireAuth(session)
    THEN [db |-> db, res |-> Response("UpdateProduct", 401, "Unauthorized")]
    ELSE IF id \notin DOMAIN db.products
    THEN [db |-> db, res |-> Response("UpdateProduct", 404, "Product not found")]
    ELSE [db |-> [db EXCEPT
                     !.products[id] =
                        [name |-> body.name, quantity |-> body.quantity,
                         price |-> body.price],
                     !.order_items =
                        [k \in 1..Len(db.order_items) |->
                            IF db.order_items[k].product_id = id
                            THEN [db.order_items[k] EXCEPT
                                     !.product_name = body.name,
                                     !.price = body.price]
                            ELSE db.order_items[k]]],
          res |-> [Response("UpdateProduct", 200, "") EXCEPT !.product_id = id]]

putProduct(db, session, id, body) ==
    IF ~requireAuth(session)
    THEN [db |-> db, res |-> Response("UpdateProduct", 401, "Unauthorized")]
    ELSE IF id \notin DOMAIN db.products
    THEN [db |-> db, res |-> Response("UpdateProduct", 404, "Product not found")]
    ELSE [db |-> [db EXCEPT !.products[id] =
                     [name |-> body.name, quantity |-> body.quantity,
                      price |-> body.price]],
          res |-> [Response("UpdateProduct", 200, "") EXCEPT !.product_id = id]]

\* order_items.product_id REFERENCES products(id).  The source sets no
\* foreign_keys pragma, so whether the reference is enforced is decided by the
\* build of the SQLite library: foreign_keys is an input of the request.
Referenced(db, id) ==
    \E k \in 1..Len(db.order_items) : db.order_items[k].product_id = id

deleteProduct(db, session, id, foreign_keys) ==
    IF ~requireAuth(session)
    THEN [db |-> db, res |-> Response("DeleteProduct", 401, "Unauthorized")]
    ELSE IF id \notin DOMAIN db.products
    THEN [db |-> db, res |-> Response("DeleteProduct", 404, "Product not found")]
    ELSE IF foreign_keys /\ Referenced(db, id)
    THEN [db |-> db, res |-> Response("DeleteProduct", 500, "SqliteError")]
    ELSE [db |-> [db EXCEPT !.products =
                     [p \in DOMAIN db.products \ {id} |-> db.products[p]]],
          res |-> [Response("DeleteProduct", 200, "") EXCEPT !.product_id = id]]

(***************************************************************************)
(* Initial state and actions.                                              *)
(***************************************************************************)
\* The catalogue: any subset of the product ids, product p named p and priced
\* p + 1, with any stock up to MaxStock.  No order has been placed.
PriceOf(p) == p + 1
ProductRow(p, quantity) == [name |-> p, quantity |-> quantity, price |-> PriceOf(p)]

Init ==
    /\ \E present \in SUBSET ProductIds :
          \E stock \in [present -> 0..MaxStock] :
             products = [p \in present |-> ProductRow(p, stock[p])]
    /\ orders = <<>>
    /\ order_items = <<>>
    /\ order_seq = 0
    /\ users = UserIds
    /\ res = Response("none", 0, "")

\* Repeated cancellations move a stock without limit; the model stops issuing
\* the requests that would take one beyond the cap.
WithinCap(db) ==
    \A p \in DOMAIN db.products :
        db.products[p].quantity \in (-QuantityCap)..QuantityCap

Commit(r) ==
    /\ WithinCap(r.db)
    /\ products' = r.db.products
    /\ orders' = r.db.orders
    /\ order_items' = r.db.order_items
    /\ order_seq' = r.db.order_seq
    /\ users' = r.db.users
    /\ res' = r.res

\* The bodies of POST /api/orders.
ArrayOf(cart) == [isArray |-> TRUE, elems |-> cart]
NotAnArray == [isArray |-> FALSE, elems |-> <<>>]
Body(items, name, address) ==
    [items |-> items, customer_name |-> name, customer_address |-> address]
OneEntryCarts == {c \in Carts : Len(c) = 1 /\ c[1].quantity = Num(1)}

\* A request that would insert an order beyond MaxOrders is not issued; the
\* requests rejected before the INSERT are issued in every state.
PlaceOrderUpTo(max, session, body, orderNumber) ==
    \E r \in {postOrder(Db, session, body, orderNumber)} :
       /\ r.db.order_seq <= max
       /\ Commit(r)

PlaceOrder(session, body, orderNumber) ==
    PlaceOrderUpTo(MaxOrders, session, body, orderNumber)

UpdateOrderStatus(session, id, status) ==
    \E r \in {putOrderStatus(Db, session, id, status)} : Commit(r)

Next ==
    \* every cart, from the non-admin user, with a fresh order number
    \/ \E cart \in Carts :
          PlaceOrder(NumUsers, Body(ArrayOf(cart), "Jane", "123 Rd"),
                     FreshOrderNumber(Db))
    \* every session and every generated order number, with a one-entry cart
    \/ \E session \in Sessions, cart \in OneEntryCarts :
          \E orderNumber \in generateOrderNumber(Db) :
             PlaceOrder(session, Body(ArrayOf(cart), "Jane", "123 Rd"), orderNumber)
    \* the malformed bodies
    \/ \E session \in UserIds,
          items \in {NotAnArray} \cup {ArrayOf(cart) : cart \in OneEntryCarts},
          name \in {"", "Jane"}, address \in {"", "123 Rd"} :
          PlaceOrder(session, Body(items, name, address), FreshOrderNumber(Db))
    \/ \E session \in Sessions, id \in OrderIds, status \in StatusInputs :
          UpdateOrderStatus(session, id, status)

Spec == Init /\ [][Next]_vars

(***************************************************************************)
(* The catalogue under maintenance: every product is on sale and fully     *)
(* stocked at first; products are renamed, repriced, restocked and         *)
(* deleted while one-unit orders are placed, shipped and cancelled.        *)
(***************************************************************************)
InitCatalog ==
    /\ products = [p \in ProductIds |-> ProductRow(p, MaxStock)]
    /\ orders = <<>>
    /\ order_items = <<>>
    /\ order_seq = 0
    /\ users = UserIds
    /\ res = Response("none", 0, "")

Renamed(p) == NumProducts + p
Repriced(p) == PriceOf(p) + 1

OneUnitCarts ==
    {c \in Carts : c # <<>> /\ \A i \in 1..Len(c) : c[i].quantity = Num(1)}

UpdateProduct(session, id, body) ==
    \E r \in {putProduct(Db, session, id, body)} : Commit(r)

DeleteProduct(session, id, foreign_keys) ==
    \E r \in {deleteProduct(Db, session, id, foreign_keys)} : Commit(r)

NextCatalog ==
    \/ \E cart \in OneUnitCarts :
          PlaceOrder(NumUsers, Body(ArrayOf(cart), "Jane", "123 Rd"),
                     FreshOrderNumber(Db))
    \/ \E session \in UserIds, id \in DOMAIN orders,
          status \in {"shipped", "cancelled"} :
          UpdateOrderStatus(session, id, status)
    \/ \E session \in Sessions, id \in ProductIds :
          \E name \in {id, Renamed(id)}, price \in {PriceOf(id), Repriced(id)} :
             UpdateProduct(session, id, ProductBody(name, MaxStock, price))
    \/ \E session \in Sessions, id \in ProductIds, foreign_keys \in BOOLEAN :
          DeleteProduct(session, id, foreign_keys)

SpecCatalog == InitCatalog /\ [][NextCatalog]_vars

(***************************************************************************)
(* The ledger: up to MaxLedgerOrders one-unit orders of either user, each   *)
(* with every order number the generator can come up with, and the status  *)
(* of each moved at will.                                                  *)
(***************************************************************************)
LedgerOrderIds == 1..(MaxLedgerOrders + 1)

NextLedger ==
    \/ \E session \in UserIds, cart \in OneEntryCarts :
          \E orderNumber \in generateOrderNumber(Db) :
             PlaceOrderUpTo(MaxLedgerOrders, session,
                            Body(ArrayOf(cart), "Jane", "123 Rd"), orderNumber)
    \/ \E session \in UserIds, id \in LedgerOrderIds, status \in validStatuses :
          UpdateOrderStatus(session, id, status)

SpecLedger == InitCatalog /\ [][NextLedger]_vars

(***************************************************************************)
(* The ledger with its readers.                                            *)
(***************************************************************************)
ListOrders(session, status, acceptsHtml) ==
    \E r \in {getOrders(Db, session, status, acceptsHtml)} : Commit(r)

ListMyOrders(session) ==
    \E r \in {getMyOrders(Db, session)} : Commit(r)

GetOrder(session, id) ==
    \E r \in {getOrder(Db, session, id)} : Commit(r)

OrderStats(session, acceptsHtml) ==
    \E r \in {getOrderStats(Db, session, acceptsHtml)} : Commit(r)

Filters == {NoFilter} \cup StatusInputs

NextReads ==
    \/ NextLedger
    \/ \E session \in Sessions, status \in Filters, acceptsHtml \in BOOLEAN :
          ListOrders(session, status, acceptsHtml)
    \/ \E session \in Sessions, acceptsHtml \in BOOLEAN :
          OrderStats(session, acceptsHtml)
    \/ \E session \in Sessions : ListMyOrders(session)
    \/ \E session \in Sessions, id \in LedgerOrderIds : GetOrder(session, id)

SpecReads == InitCatalog /\ [][NextReads]_vars

(***************************************************************************)
(* One order of one or two one-unit entries, its status moved at will,     *)
(* with restore statements that may throw.                                 *)
(***************************************************************************)
UpdateOrderStatusFailing(session, id, status, failAt) ==
    \E r \in {putOrderStatusFailing(Db, session, id, status, failAt)} : Commit(r)

NextFaults ==
    \/ \E cart \in OneUnitCarts :
          PlaceOrder(NumUsers, Body(ArrayOf(cart), "Jane", "123 Rd"),
                     FreshOrderNumber(Db))
    \/ \E session \in UserIds, id \in OrderIds, status \in validStatuses :
          UpdateOrderStatus(session, id, status)
    \/ \E session \in UserIds, id \in OrderIds, status \in validStatuses,
          failAt \in 1..MaxCartLen :
          UpdateOrderStatusFailing(session, id, status, failAt)

SpecFaults == InitCatalog /\ [][NextFaults]_vars

(***************************************************************************)
(* The ledger with accounts being deleted.                                 *)
(***************************************************************************)
DeleteUser(session, userId, acceptsHtml) ==
    \E r \in {deleteUser(Db, session, userId, acceptsHtml)} : Commit(r)

PlaceOrderChecked(session, body, orderNumber, foreign_keys) ==
    \E r \in {postOrderChecked(Db, session, body, orderNumber, foreign_keys)} :
       /\ r.db.order_seq <= MaxLedgerOrders
       /\ Commit(r)

NextUsers ==
    \/ \E session \in UserIds, cart \in OneUnitCarts, foreign_keys \in BOOLEAN :
          PlaceOrderChecked(session, Body(ArrayOf(cart), "Jane", "123 Rd"),
                            FreshOrderNumber(Db), foreign_keys)
    \/ \E session \in UserIds, id \in LedgerOrderIds,
          status \in {"processing", "cancelled"} :
          UpdateOrderStatus(session, id, status)
    \/ \E session \in Sessions, userId \in 1..(NumUsers + 1),
          acceptsHtml \in BOOLEAN :
          DeleteUser(session, userId, acceptsHtml)

SpecUsers == InitCatalog /\ [][NextUsers]_vars

(***************************************************************************)
(* Vocabulary of the properties.                                           *)
(***************************************************************************)
Tables == <<products, orders, order_items, order_seq>>

Customer == NumUsers    \* a user without the admin role

ValidBody(cart) == Body(ArrayOf(cart), "Jane", "123 Rd")

\* What POST /api/orders answers and leaves behind for a cart, in the current
\* database, with a fresh order number.
Placed(session, cart) ==
    postOrder(Db, session, ValidBody(cart), FreshOrderNumber(Db))

\* The units of product p a cart asks for, over all its entries.
RECURSIVE Demand(_, _)
Demand(cart, p) ==
    IF cart = <<>> THEN 0
    ELSE (IF Head(cart).product_id = p THEN ToNumber(Head(cart).quantity) ELSE 0)
         + Demand(Tail(cart), p)

\* The units of product p in the stored rows of order o.
RECURSIVE ItemsQuantity(_, _, _)
ItemsQuantity(items, o, p) ==
    IF items = <<>> THEN 0
    ELSE (IF Head(items).order_id = o /\ Head(items).product_id = p
          THEN Head(items).quantity ELSE 0)
         + ItemsQuantity(Tail(items), o, p)

RECURSIVE SumSubtotals(_)
SumSubtotals(items) ==
    IF items = <<>> THEN 0 ELSE Head(items).subtotal + SumSubtotals(Tail(items))

Exceeds(prods, entry) ==
    /\ entry.product_id \in DOMAIN prods
    /\ ToNumber(entry.quantity) > prods[entry.product_id].quantity

ValidationErrors == {"ProductNotFound", "OutOfStock"}

(***************************************************************************)
(* C1.  Stock invariant: every Product.quantity is >= 0 in every reachable *)
(* state, whatever carts POST /api/orders accepted and whatever orders     *)
(* were cancelled.                                                         *)
(***************************************************************************)
C1_StockNeverNegative ==
    \A p \in DOMAIN products : products[p].quantity >= 0

(***************************************************************************)
(* C2.  No oversell under concurrency.  Two concurrent POST /api/orders    *)
(* are handled one after the other, in either order.  (a) When both ask    *)
(* for q units of one product whose stock s has q <= s < 2q, exactly one   *)
(* succeeds, the other is answered OutOfStock and the stock ends at s - q. *)
(* (b) Whenever both succeed, the units they deduct together are no more   *)
(* than the stock the earlier one found.                                   *)
(***************************************************************************)
C2_NoOversell ==
    \A cart1 \in Carts, cart2 \in Carts :
       LET first  == Placed(Customer, cart1)
           second == postOrder(first.db, Customer, ValidBody(cart2),
                               FreshOrderNumber(first.db))
       IN /\ \A p \in DOMAIN products, q \in 1..MaxQty :
                /\ cart1 = <<[product_id |-> p, quantity |-> Num(q)]>>
                /\ cart2 = cart1
                /\ q <= products[p].quantity
                /\ products[p].quantity < 2 * q
                => /\ first.res.status = 200
                   /\ second.res.error = "OutOfStock"
                   /\ second.db.products[p].quantity = products[p].quantity - q
          /\ first.res.status = 200 /\ second.res.status = 200
                => \A p \in DOMAIN products :
                      Demand(cart1, p) + Demand(cart2, p) <= products[p].quantity

(***************************************************************************)
(* C3.  Atomicity on validation failure: a POST /api/orders answered       *)
(* ProductNotFound or OutOfStock, whichever entry of the cart caused it,   *)
(* leaves the orders, the order items, the products and the order id       *)
(* sequence as they were.                                                  *)
(***************************************************************************)
C3_ValidationFailureWritesNothing ==
    [][(res'.op = "PlaceOrder" /\ res'.error \in ValidationErrors)
          => UNCHANGED Tables]_vars

\* An order is stored, and the last request was rejected for an entry that came
\* after an acceptable one.
C3_Witness ==
    /\ orders # <<>>
    /\ res.op = "PlaceOrder" /\ res.error \in ValidationErrors
    /\ \E cart \in Carts :
          /\ Len(cart) = MaxCartLen
          /\ validateLoop(products, SubSeq(cart, 1, MaxCartLen - 1), 1, 0, <<>>).ok
          /\ validateLoop(products, cart, 1, 0, <<>>).res = res

(***************************************************************************)
(* C4.  Write-phase atomicity: when a write of POST /api/orders fails      *)
(* after validation (the request is answered 500), no order header, no     *)
(* order item and no stock deduction of that request remains.              *)
(***************************************************************************)
C4_WriteFailureWritesNothing ==
    [][(res'.op = "PlaceOrder" /\ res'.status = 500) => UNCHANGED Tables]_vars

(***************************************************************************)
(* C5.  Cancellation reversal: for every cart POST /api/orders accepts,    *)
(* cancelling the new order, directly or after status changes that are not *)
(* cancellations, returns every product's quantity to its value before the *)
(* order was placed.                                                       *)
(***************************************************************************)
C5_CancellationReversal ==
    \A cart \in Carts :
       LET placed == Placed(Customer, cart)
           o == placed.res.order
       IN placed.res.status = 200 =>
             /\ putOrderStatus(placed.db, Admin, o, "cancelled").db.products
                   = products
             /\ \A mid \in validStatuses \ {"cancelled"} :
                   putOrderStatus(putOrderStatus(placed.db, Admin, o, mid).db,
                                  Admin, o, "cancelled").db.products = products

\* An order that took units of a product has just been cancelled, and the product
\* is back at the largest initial stock.
C5_Witness ==
    /\ res.op = "UpdateOrderStatus" /\ res.status = 200
    /\ res.order \in DOMAIN orders
    /\ orders[res.order].status = "cancelled"
    /\ \E p \in DOMAIN products :
          /\ ItemsQuantity(order_items, res.order, p) = MaxQty
          /\ products[p].quantity = MaxStock

(***************************************************************************)
(* C6.  Cancellation restores inventory exactly once: a 'cancelled' update *)
(* on an order that is already cancelled is rejected with AlreadyCancelled *)
(* and adds nothing to any product's stock.                                *)
(***************************************************************************)
C6_RecancelRejected ==
    [][\A o \in DOMAIN orders :
          ( /\ orders[o].status = "cancelled"
            /\ res'.op = "UpdateOrderStatus" /\ res'.order = o
            /\ orders'[o].status = "cancelled" )
          => (res'.error = "AlreadyCancelled" /\ products' = products)]_vars

(***************************************************************************)
(* C7.  Inventory is restored if and only if the new status is 'cancelled':*)
(* a successful status update to another status leaves every product's     *)
(* quantity unchanged, and one to 'cancelled' adds to every product the    *)
(* quantities of the order's items that reference it (and of no other      *)
(* order's items).  Stated of every status update the model takes, and of  *)
(* every status update on any order after one more order has been placed.  *)
(***************************************************************************)
Restored(db, o, status, p) ==
    IF status = "cancelled" THEN ItemsQuantity(db.order_items, o, p) ELSE 0

C7_AfterOneMoreOrder ==
    \A cart \in {c \in Carts : Len(c) <= 1} :
       LET db == Placed(Customer, cart).db IN
       \A o \in DOMAIN db.orders, status \in validStatuses :
          LET updated == putOrderStatus(db, Admin, o, status) IN
          /\ updated.res.status = 200
          /\ DOMAIN updated.db.products = DOMAIN db.products
          /\ \A p \in DOMAIN db.products :
                updated.db.products[p] =
                   [db.products[p] EXCEPT !.quantity = @ + Restored(db, o, status, p)]

C7_RestoreIffCancelled ==
    /\ []C7_AfterOneMoreOrder
    /\ [][(res'.op = "UpdateOrderStatus" /\ res'.status = 200) =>
             /\ DOMAIN products' = DOMAIN products
             /\ \A p \in DOMAIN products :
                   products'[p] =
                      [products[p] EXCEPT !.quantity =
                          @ + Restored(Db, res'.order,
                                       orders'[res'.order].status, p)]]_vars

\* An order with the longest cart has just been cancelled.
C7_Witness ==
    /\ res.op = "UpdateOrderStatus" /\ res.status = 200
    /\ res.order \in DOMAIN orders
    /\ orders[res.order].status = "cancelled"
    /\ Len(getOrderItems(order_items, res.order)) = MaxCartLen

(***************************************************************************)
(* C8.  Total reconciliation: every stored order's total_amount is the sum *)
(* of the subtotals of its order items, and every order item's subtotal is *)
(* its quantity times its price.                                           *)
(***************************************************************************)
C8_TotalsReconcile ==
    /\ \A o \in DOMAIN orders :
          orders[o].total_amount = SumSubtotals(getOrderItems(order_items, o))
    /\ \A k \in 1..Len(order_items) :
          order_items[k].subtotal = order_items[k].quantity * order_items[k].price

(***************************************************************************)
(* C9.  Effect of a successful POST /api/orders: one new order, pending    *)
(* and owned by the session's user, the stored orders untouched; one new   *)
(* order item per cart entry, in cart order, with the product's name and   *)
(* price; every product's quantity lowered by what the cart asks of it and *)
(* nothing else of a product changed; the response carries the new order   *)
(* and its items.                                                          *)
(***************************************************************************)
C9_PlaceOrderEffect ==
    \A session \in UserIds, cart \in Carts :
       LET placed == Placed(session, cart)
           db == placed.db
           o == placed.res.order
           n == Len(order_items)
       IN placed.res.status = 200 =>
             /\ o \notin DOMAIN orders
             /\ DOMAIN db.orders = DOMAIN orders \cup {o}
             /\ \A id \in DOMAIN orders : db.orders[id] = orders[id]
             /\ db.orders[o].status = "pending"
             /\ db.orders[o].user_id = session
             /\ db.orders[o].total_amount =
                   SumSubtotals(getOrderItems(db.order_items, o))
             /\ Len(db.order_items) = n + Len(cart)
             /\ SubSeq(db.order_items, 1, n) = order_items
             /\ \A i \in 1..Len(cart) :
                   db.order_items[n + i] =
                      [order_id     |-> o,
                       product_id   |-> cart[i].product_id,
                       product_name |-> products[cart[i].product_id].name,
                       quantity     |-> cart[i].quantity.n,
                       price        |-> products[cart[i].product_id].price,
                       subtotal     |-> products[cart[i].product_id].price
                                           * cart[i].quantity.n]
             /\ DOMAIN db.products = DOMAIN products
             /\ \A p \in DOMAIN products :
                   db.products[p] =
                      [products[p] EXCEPT !.quantity = @ - Demand(cart, p)]
             /\ placed.res.items = SubSeq(db.order_items, n + 1, n + Len(cart))

\* The last request placed an order for two different products.
C9_Witness ==
    /\ res.op = "PlaceOrder" /\ res.status = 200
    /\ res.order \in DOMAIN orders
    /\ orders[res.order].status = "pending"
    /\ Len(res.items) = MaxCartLen
    /\ res.items[1].product_id # res.items[MaxCartLen].product_id
    /\ res.items[1].quantity > 0

(***************************************************************************)
(* C10.  OutOfStock: POST /api/orders fails, writing nothing, whenever an  *)
(* entry of the cart asks for more than the current quantity of its        *)
(* product; an OutOfStock answer names the product of the first entry that *)
(* does so, with the available and the requested quantity; a cart whose    *)
(* entries all resolve and ask for no more than the available quantity     *)
(* (exactly the available quantity included) is not rejected.              *)
(***************************************************************************)
C10_OutOfStock ==
    \A cart \in Carts \ {<<>>} :
       LET placed == Placed(Customer, cart)
           bad == {i \in 1..Len(cart) : Exceeds(products, cart[i])}
       IN /\ bad # {} =>
                /\ placed.res.status = 400
                /\ placed.res.error \in ValidationErrors
                /\ placed.db = Db
          /\ placed.res.error = "OutOfStock" =>
                \E i \in bad :
                   /\ \A j \in bad : i <= j
                   /\ placed.res.product_name = products[cart[i].product_id].name
                   /\ placed.res.available = products[cart[i].product_id].quantity
                   /\ placed.res.requested = cart[i].quantity
          /\ ( /\ bad = {}
               /\ \A i \in 1..Len(cart) : cart[i].product_id \in DOMAIN products )
                => placed.res.error \notin ValidationErrors

\* The last request was rejected for asking one unit more than a product has,
\* and the product is not out of stock.
C10_Witness ==
    /\ res.op = "PlaceOrder" /\ res.error = "OutOfStock"
    /\ res.product_id \in DOMAIN products
    /\ res.product_name = products[res.product_id].name
    /\ res.available = products[res.product_id].quantity
    /\ res.available > 0
    /\ res.requested = Num(res.available + 1)

(***************************************************************************)
(* C11.  ProductNotFound: POST /api/orders fails, writing nothing,         *)
(* whenever an entry of the cart names a product id that is not in the     *)
(* catalogue, a product deleted since the cart was filled included; when   *)
(* the first entry that cannot be served is such an entry, the answer is   *)
(* ProductNotFound and names that product id.                              *)
(***************************************************************************)
C11_ProductNotFound ==
    \A cart \in Carts \ {<<>>} :
       LET placed == Placed(Customer, cart)
           unknown == {i \in 1..Len(cart) : cart[i].product_id \notin DOMAIN products}
           bad == {i \in 1..Len(cart) : Exceeds(products, cart[i])}
       IN /\ unknown # {} =>
                /\ placed.res.status = 400
                /\ placed.res.error \in ValidationErrors
                /\ placed.db = Db
          /\ \A i \in unknown :
                (\A j \in unknown \cup bad : i <= j) =>
                   /\ placed.res.error = "ProductNotFound"
                   /\ placed.res.product_id = cart[i].product_id
          /\ placed.res.error = "ProductNotFound" =>
                \E i \in unknown : placed.res.product_id = cart[i].product_id

\* The last request was turned away for a product that was on sale at first,
\* was deleted by the request before, and is not the only product.
C11_Witness ==
    /\ res.op = "PlaceOrder" /\ res.error = "ProductNotFound"
    /\ res.product_id \in ProductIds \ DOMAIN products
    /\ DOMAIN products # {}

(***************************************************************************)
(* C12.  InvalidOrder: POST /api/orders is rejected with InvalidOrder, and *)
(* no order, order item or product changes, when the cart is missing or    *)
(* not a list, when it is an empty list, or when the customer's name or    *)
(* address is missing; whatever cart a body with a list and both fields    *)
(* carries, it is not answered InvalidOrder.                               *)
(***************************************************************************)
Malformed(items, name, address) ==
    \/ ~items.isArray
    \/ items.elems = <<>>
    \/ name = ""
    \/ address = ""

C12_InvalidOrderChangesNothing ==
    \A items \in {NotAnArray} \cup {ArrayOf(cart) : cart \in Carts},
       name \in {"", "Jane"}, address \in {"", "123 Rd"},
       session \in UserIds :
       LET r == postOrder(Db, session, Body(items, name, address),
                          FreshOrderNumber(Db))
       IN IF Malformed(items, name, address)
          THEN r.res.status = 400 /\ r.res.error = "InvalidOrder" /\ r.db = Db
          ELSE r.res.error # "InvalidOrder"

C12_InvalidOrder ==
    /\ []C12_InvalidOrderChangesNothing
    /\ [][(res'.op = "PlaceOrder" /\ res'.error = "InvalidOrder")
             => UNCHANGED Tables]_vars

\* A request was answered InvalidOrder while an order with its items is stored.
C12_Witness ==
    /\ res.op = "PlaceOrder" /\ res.error = "InvalidOrder" /\ res.status = 400
    /\ DOMAIN orders # {}
    /\ order_items # <<>>

(***************************************************************************)
(* C13.  Every stored order item has a positive integer quantity: POST     *)
(* /api/orders never stores a cart entry whose quantity is zero, negative  *)
(* or missing.                                                             *)
(***************************************************************************)
C13_PositiveQuantities ==
    \A k \in 1..Len(order_items) :
       /\ order_items[k].quantity \in Int
       /\ order_items[k].quantity > 0

(***************************************************************************)
(* C14.  InvalidStatus: PUT /api/orders/:id/status with a status outside   *)
(* pending, processing, shipped, delivered, cancelled fails with           *)
(* InvalidStatus, whether the id names an order or not, and changes no     *)
(* order's status and no product's quantity.                               *)
(***************************************************************************)
C14_InvalidStatusChangesNothing ==
    \A session \in UserIds, id \in OrderIds,
       status \in StatusInputs \ {"pending", "processing", "shipped",
                                  "delivered", "cancelled"} :
       LET r == putOrderStatus(Db, session, id, status)
       IN /\ r.res.status = 400
          /\ r.res.error = "InvalidStatus"
          /\ r.db = Db

C14_InvalidStatus ==
    /\ []C14_InvalidStatusChangesNothing
    /\ [][(res'.op = "UpdateOrderStatus" /\ res'.error = "InvalidStatus")
             => UNCHANGED Tables]_vars

\* A request for a status outside the five was turned away while an order
\* with items is stored.
C14_Witness ==
    /\ res.op = "UpdateOrderStatus" /\ res.error = "InvalidStatus"
    /\ DOMAIN orders # {}
    /\ order_items # <<>>

(***************************************************************************)
(* C15.  OrderNotFound: PUT /api/orders/:id/status with an id that names   *)
(* no order fails with OrderNotFound and leaves every order and every      *)
(* product quantity as it was, whatever valid status is asked for,         *)
(* 'cancelled' included.                                                   *)
(***************************************************************************)
C15_OrderNotFoundChangesNothing ==
    \A session \in UserIds, id \in OrderIds \ DOMAIN orders,
       status \in {"pending", "processing", "shipped", "delivered", "cancelled"} :
       LET r == putOrderStatus(Db, session, id, status)
       IN /\ r.res.status = 404
          /\ r.res.error = "OrderNotFound"
          /\ r.db = Db

C15_OrderNotFound ==
    /\ []C15_OrderNotFoundChangesNothing
    /\ [][(res'.op = "UpdateOrderStatus" /\ res'.error = "OrderNotFound")
             => UNCHANGED Tables]_vars

\* A status update was answered OrderNotFound while another order, with
\* items, is stored.
C15_Witness ==
    /\ res.op = "UpdateOrderStatus" /\ res.error = "OrderNotFound"
    /\ res.status = 404
    /\ DOMAIN orders # {}
    /\ order_items # <<>>

(***************************************************************************)
(* C16.  Order number uniqueness: in every reachable state the stored      *)
(* orders have pairwise distinct order numbers, and a POST /api/orders for *)
(* which the generator hands out the number of a stored order stores no    *)
(* order.                                                                  *)
(***************************************************************************)
C16_OrderNumbersUnique ==
    /\ \A a, b \in DOMAIN orders :
          a # b => orders[a].order_number # orders[b].order_number
    /\ \A session \in UserIds, cart \in OneEntryCarts,
          orderNumber \in OrderNumbersOf(Db) :
          postOrder(Db, session, ValidBody(cart), orderNumber).db.orders = orders

\* Two orders are stored and the last request, for which the generator
\* repeated a stored number, was turned away.
C16_Witness ==
    /\ Cardinality(DOMAIN orders) = MaxLedgerOrders
    /\ res.op = "PlaceOrder" /\ res.status = 500

(***************************************************************************)
(* C17.  Order number collision is retried: a POST /api/orders for which   *)
(* the generator first repeats the number of a stored order, and would     *)
(* hand out a fresh number when asked again, ends as the same request with *)
(* the fresh number ends: when that one stores the order and answers 200,  *)
(* so does the one that met the collision.                                 *)
(***************************************************************************)
C17_CollisionRetried ==
    \A session \in UserIds, cart \in OneEntryCarts,
       orderNumber \in OrderNumbersOf(Db) :
       Placed(session, cart).res.status = 200 =>
          LET r == postOrder(Db, session, ValidBody(cart), orderNumber)
          IN /\ r.res.status = 200
             /\ DOMAIN r.db.orders # DOMAIN orders

(***************************************************************************)
(* C18.  Price snapshot: PUT /api/products/:id, whatever name, price and   *)
(* quantity it stores, leaves the price, product_name and subtotal of      *)
(* every stored order item and the total_amount of every stored order as   *)
(* they were.                                                              *)
(***************************************************************************)
C18_UpdateKeepsSnapshots ==
    \A session \in UserIds, id \in ProductIds :
       \A name \in {id, Renamed(id)}, price \in {PriceOf(id), Repriced(id)},
          quantity \in 0..MaxStock :
          LET r == putProduct(Db, session, id, ProductBody(name, quantity, price))
          IN /\ r.db.order_items = order_items
             /\ r.db.orders = orders

C18_PriceSnapshot ==
    /\ []C18_UpdateKeepsSnapshots
    /\ [][res'.op = "UpdateProduct" => UNCHANGED <<orders, order_items>>]_vars

\* A product was renamed and repriced after it was ordered: its order item
\* carries the old name and the old price.
C18_Witness ==
    /\ res.op = "UpdateProduct" /\ res.status = 200
    /\ res.product_id \in DOMAIN products
    /\ \E k \in 1..Len(order_items) :
          /\ order_items[k].product_id = res.product_id
          /\ order_items[k].price # products[res.product_id].price
          /\ order_items[k].product_name # products[res.product_id].name
          /\ order_items[k].subtotal = order_items[k].price * order_items[k].quantity
          /\ orders[order_items[k].order_id].total_amount >= order_items[k].subtotal

(***************************************************************************)
(* C19.  Order status state machine: in every step the status of a stored  *)
(* order either stays or moves along pending -> processing or cancelled,   *)
(* processing -> shipped or cancelled, shipped -> delivered; the status of *)
(* a cancelled or delivered order never changes.                           *)
(***************************************************************************)
Transitions ==
    {<<"pending", "processing">>, <<"pending", "cancelled">>,
     <<"processing", "shipped">>, <<"processing", "cancelled">>,
     <<"shipped", "delivered">>}

C19_StatusStateMachine ==
    [][\A id \in DOMAIN orders \cap DOMAIN orders' :
          \/ orders'[id].status = orders[id].status
          \/ <<orders[id].status, orders'[id].status>> \in Transitions]_vars

(***************************************************************************)
(* C20.  Reads are pure: GET /api/orders/:id, GET /api/orders and GET      *)
(* /api/orders/my-orders change no order, no order item and no product,    *)
(* whoever asks, whatever id or status filter is given and whatever the    *)
(* answer is, the refusals and OrderNotFound included.                     *)
(***************************************************************************)
Reads == {"GetOrder", "ListOrders", "ListMyOrders"}

C20_ReadsLeaveDatabase ==
    /\ \A session \in Sessions, id \in LedgerOrderIds :
          getOrder(Db, session, id).db = Db
    /\ \A session \in Sessions, status \in Filters, acceptsHtml \in BOOLEAN :
          getOrders(Db, session, status, acceptsHtml).db = Db
    /\ \A session \in Sessions : getMyOrders(Db, session).db = Db

C20_ReadsArePure ==
    /\ []C20_ReadsLeaveDatabase
    /\ [][res'.op \in Reads => UNCHANGED Tables]_vars

\* The customer listed their orders and was shown a pending order with its
\* item, while the other user has an order too.
C20_Witness ==
    /\ res.op = "ListMyOrders" /\ res.status = 200
    /\ \E e \in res.list :
          /\ e.order.user_id = Customer
          /\ e.order.status = "pending"
          /\ e.items # <<>>
    /\ \E id \in DOMAIN orders : orders[id].user_id # Customer

(***************************************************************************)
(* C21.  List results are exact: for an admin, GET /api/orders with a      *)
(* status filter returns exactly the stored orders of that status, and all *)
(* stored orders without a filter; GET /api/orders/my-orders returns       *)
(* exactly the stored orders whose user_id is the session's user; every    *)
(* returned order is the stored row and carries exactly the order items    *)
(* whose order_id is its id.                                               *)
(***************************************************************************)
\* The entry is the stored order with exactly its own order items.
ExactEntry(e) ==
    /\ e.id \in DOMAIN orders
    /\ e.order = orders[e.id]
    /\ \A k \in 1..Len(e.items) : e.items[k].order_id = e.id
    /\ Len(e.items) =
          Cardinality({k \in 1..Len(order_items) : order_items[k].order_id = e.id})
    /\ \A k \in 1..Len(order_items) :
          order_items[k].order_id = e.id =>
             \E j \in 1..Len(e.items) : e.items[j] = order_items[k]

IdsOf(list) == {e.id : e \in list}

C21_ListsAreExact ==
    /\ \A status \in Filters, acceptsHtml \in BOOLEAN :
          LET r == getOrders(Db, Admin, status, acceptsHtml)
          IN /\ r.res.status = 200
             /\ IdsOf(r.res.list) =
                   IF status = ""
                   THEN DOMAIN orders
                   ELSE {o \in DOMAIN orders : orders[o].status = status}
             /\ Cardinality(r.res.list) = Cardinality(IdsOf(r.res.list))
             /\ \A e \in r.res.list : ExactEntry(e)
    /\ \A session \in UserIds :
          LET r == getMyOrders(Db, session)
          IN /\ r.res.status = 200
             /\ IdsOf(r.res.list) =
                   {o \in DOMAIN orders : orders[o].user_id = session}
             /\ Cardinality(r.res.list) = Cardinality(IdsOf(r.res.list))
             /\ \A e \in r.res.list : ExactEntry(e)

\* The admin listed the orders and was shown one of the two stored orders,
\* with its item.
C21_Witness ==
    /\ res.op = "ListOrders" /\ res.status = 200
    /\ Cardinality(res.list) = 1
    /\ Cardinality(DOMAIN orders) = MaxLedgerOrders
    /\ \A e \in res.list : ExactEntry(e) /\ e.items # <<>>

(***************************************************************************)
(* C22.  Admin-only reads: GET /api/orders and GET /api/orders/stats       *)
(* answer 200 with the orders or the statistics when the session's user    *)
(* has role admin; without a session, or for a user of role 'user', the    *)
(* answer is 401, 403 or a redirect and carries no order, no item and no   *)
(* statistic.                                                              *)
(***************************************************************************)
Refusals == {401, 403, 302}

CarriesNoData(response) ==
    /\ response.list = {}
    /\ response.stats = <<>>
    /\ response.items = <<>>
    /\ response.order = 0

AdminOnly(session, r) ==
    IF session # NoSession /\ Role(session) = "admin"
    THEN r.res.status = 200
    ELSE r.res.status \in Refusals /\ CarriesNoData(r.res)

C22_AdminGate ==
    \A session \in Sessions, acceptsHtml \in BOOLEAN :
       /\ \A status \in Filters :
             AdminOnly(session, getOrders(Db, session, status, acceptsHtml))
       /\ AdminOnly(session, getOrderStats(Db, session, acceptsHtml))
       /\ Role(Admin) = "admin"
       /\ LET r == getOrderStats(Db, Admin, acceptsHtml)
          IN /\ Len(r.res.stats) = 1
             /\ r.res.stats[1].totalOrders = Cardinality(DOMAIN orders)

C22_AdminOnlyReads ==
    /\ []C22_AdminGate
    /\ [][(res'.op \in {"ListOrders", "OrderStats"} /\ res'.status # 200)
             => CarriesNoData(res')]_vars

\* A user of role 'user' asked for the statistics while orders are stored and
\* was refused.
C22_Witness ==
    /\ res.op = "OrderStats" /\ res.status = 403
    /\ CarriesNoData(res)
    /\ Cardinality(DOMAIN orders) = MaxLedgerOrders

(***************************************************************************)
(* C23.  Order status transitions are admin-driven: PUT                    *)
(* /api/orders/:id/status from a logged-in user who is not an admin        *)
(* changes the status of no order and restores no stock.                   *)
(***************************************************************************)
C23_StatusChangeAdminOnly ==
    \A session \in UserIds, id \in LedgerOrderIds, status \in StatusInputs :
       Role(session) # "admin" =>
          LET r == putOrderStatus(Db, session, id, status)
          IN /\ r.db.orders = orders
             /\ r.db.products = products

(***************************************************************************)
(* C24.  Product.quantity is changed only by the order workflow or by an   *)
(* admin's edit: PUT /api/products/:id and DELETE /api/products/:id from a *)
(* logged-in user who is not an admin leave every product in the catalogue *)
(* with the quantity it had.                                               *)
(***************************************************************************)
SameQuantities(db) ==
    \A p \in DOMAIN products :
       /\ p \in DOMAIN db.products
       /\ db.products[p].quantity = products[p].quantity

C24_QuantityEditAdminOnly ==
    \A session \in UserIds, id \in ProductIds :
       Role(session) # "admin" =>
          /\ \A quantity \in 0..MaxStock :
                SameQuantities(
                    putProduct(Db, session, id,
                               ProductBody(id, quantity, PriceOf(id))).db)
          /\ \A foreign_keys \in BOOLEAN :
                SameQuantities(deleteProduct(Db, session, id, foreign_keys).db)

(***************************************************************************)
(* C25.  Stock conservation: while orders are only placed and their status *)
(* only updated, for every product the current quantity plus the           *)
(* quantities of its order items on orders that are not 'cancelled' equals *)
(* the quantity the product started with, also after an order was          *)
(* cancelled twice or a cancelled order was moved to another status.       *)
(***************************************************************************)
\* The units of product p on the items of orders that are not cancelled.
RECURSIVE Outstanding(_, _)
Outstanding(items, p) ==
    IF items = <<>> THEN 0
    ELSE (IF /\ Head(items).product_id = p
             /\ Head(items).order_id \in DOMAIN orders
             /\ orders[Head(items).order_id].status # "cancelled"
          THEN Head(items).quantity ELSE 0)
         + Outstanding(Tail(items), p)

\* SpecLedger starts with every product at MaxStock.
C25_StockConservation ==
    \A p \in DOMAIN products :
       products[p].quantity + Outstanding(order_items, p) = MaxStock

(***************************************************************************)
(* C26.  Repeated product in one cart: POST /api/orders rejects, writing   *)
(* nothing, a cart whose entries for one product ask together for more     *)
(* than that product's quantity, so no single order takes a product's      *)
(* stock below zero.                                                       *)
(***************************************************************************)
\* Carts of positive quantities whose products are all in the catalogue.
PlainCarts ==
    {c \in Carts :
        \A i \in 1..Len(c) :
           /\ c[i].product_id \in DOMAIN products
           /\ c[i].quantity.t = "num"
           /\ c[i].quantity.n > 0}

C26_RepeatedProduct ==
    \A cart \in PlainCarts :
       (\E p \in DOMAIN products :
           /\ products[p].quantity >= 0
           /\ Demand(cart, p) > products[p].quantity)
       => LET placed == Placed(Customer, cart)
          IN /\ placed.res.status = 400
             /\ placed.db = Db

(***************************************************************************)
(* C27.  Cancellation is all-or-nothing: a PUT /api/orders/:id/status that *)
(* leaves an order 'cancelled' that was not has added the quantity of      *)
(* every item of the order back to its product, and one that is answered   *)
(* 500 has changed neither a status nor a stock, also when a restore       *)
(* statement throws.                                                       *)
(***************************************************************************)
C27_CancellationAtomic ==
    [][res'.op = "UpdateOrderStatus" =>
          /\ res'.status = 500 => UNCHANGED Tables
          /\ \A id \in DOMAIN orders :
                (orders[id].status # "cancelled" /\ orders'[id].status = "cancelled")
                => \A p \in DOMAIN products :
                      products'[p].quantity =
                         products[p].quantity + ItemsQuantity(order_items, id, p)]_vars

(***************************************************************************)
(* C28.  No orphan line items: in every reachable state every order item   *)
(* belongs to a stored order; DELETE /api/users/:id by an admin removes    *)
(* the account's orders and exactly their order items together, and        *)
(* leaves the orders and items of the other accounts and every product as  *)
(* they were; a refused deletion changes nothing.                          *)
(***************************************************************************)
NoOrphans(db) ==
    \A k \in 1..Len(db.order_items) :
       db.order_items[k].order_id \in DOMAIN db.orders

\* The rows of the sequence that belong to orders of other accounts, in order.
RECURSIVE ItemsOfOthers(_, _)
ItemsOfOthers(items, userId) ==
    IF items = <<>> THEN <<>>
    ELSE IF orders[Head(items).order_id].user_id = userId
    THEN ItemsOfOthers(Tail(items), userId)
    ELSE <<Head(items)>> \o ItemsOfOthers(Tail(items), userId)

C28_DeletionTakesOrdersAndItems ==
    /\ NoOrphans(Db)
    /\ \A userId \in users, acceptsHtml \in BOOLEAN :
          LET r == deleteUser(Db, Admin, userId, acceptsHtml)
          IN IF Role(userId) = "admin"
             THEN r.res.status = 400 /\ r.db = Db
             ELSE /\ r.res.status = 200
                  /\ userId \notin r.db.users
                  /\ DOMAIN r.db.orders =
                        {o \in DOMAIN orders : orders[o].user_id # userId}
                  /\ \A o \in DOMAIN r.db.orders : r.db.orders[o] = orders[o]
                  /\ r.db.order_items = ItemsOfOthers(order_items, userId)
                  /\ r.db.products = products
                  /\ NoOrphans(r.db)

C28_NoOrphanItems ==
    /\ []C28_DeletionTakesOrdersAndItems
    /\ [][res'.op = "DeleteUser" =>
             /\ products' = products
             /\ res'.status # 200 => UNCHANGED <<Tables, users>>]_vars

\* The account of the customer was deleted with its order; the order of the
\* admin and its items are still stored.
C28_Witness ==
    /\ res.op = "DeleteUser" /\ res.status = 200
    /\ Customer \notin users
    /\ order_seq = MaxLedgerOrders
    /\ Cardinality(DOMAIN orders) = 1
    /\ \A o \in DOMAIN orders : orders[o].user_id = Admin
    /\ order_items # <<>>
    /\ NoOrphans(Db)

(***************************************************************************)
(* C29.  GET /api/orders/:id discloses an order only to its owner or to an *)
(* admin: a logged-in user who is not an admin and asks for an order whose *)
(* user_id is another account's is not answered with that order or its     *)
(* items.                                                                  *)
(***************************************************************************)
C29_GetOrderOwnerOrAdmin ==
    \A session \in UserIds, id \in DOMAIN orders :
       (Role(session) # "admin" /\ orders[id].user_id # session) =>
          LET r == getOrder(Db, session, id)
          IN /\ r.res.status # 200
             /\ r.res.list = {}
             /\ r.res.items = <<>>

=============================================================================
